---- MODULE Spec2Model ----
(***************************************************************************)
(* A model of main.py, the FastAPI front-end of the S3 file manager: the   *)
(* validators, the bucket helpers (list_bucket_objects,                    *)
(* remove_all_in_bucket, copy_or_move_files) and the POST handlers, run    *)
(* against a storage backend that holds buckets and named objects.         *)
(*                                                                         *)
(* A request advances one storage call at a time, so that the states       *)
(* between two calls of one handler are visible and two requests can       *)
(* interleave.  Every storage call may raise; what the handler does with   *)
(* the exception is taken from the code (caught, swallowed or propagated). *)
(***************************************************************************)
EXTENDS Naturals, Sequences, FiniteSets

VARIABLES
    buckets,   \* backend: the set of existing bucket names
    objects,   \* backend: function from <<bucket, name>> (objects present) to bytes
    pc,        \* per request: where the handler stands
    args,      \* per request: the form fields / call arguments
    loc,       \* per request: the local variables of the running function
    resp,      \* per request: the response (or returned message)
    calls,     \* history: the storage calls issued so far, in order
    start      \* history: the backend as it was when the requests arrived

vars == <<buckets, objects, pc, args, loc, resp, calls, start>>

----------------------------------------------------------------------------
(* Bounds *)

\* longest bucket-name string given to create_bucket in SpecValid
MaxLen == 3
\* longest file list given to copy_or_move_files
MaxFiles == 2

----------------------------------------------------------------------------
(* Values *)

Reqs == {"r1", "r2"}

\* Strings are sequences of one-character strings.
BA == <<"a">>
BB == <<"b">>
BucketIds == {BA, BB}
EmptyStr == << >>
\* Python's None (dest_bucket: str = Form(None)); no string equals it.
NoneVal == <<"None">>

Names == {"f", "g"}

\* Object contents (bytes); the first is the zero-length content.
EmptyBytes == << >>
Contents == {EmptyBytes, <<"x">>, <<"y">>}

Alphabet == {"a", "0", "-", "A", "_", "\n"}
Strings(n) == UNION {[1..k -> Alphabet] : k \in 0..n}

LowerCase == {"a", "b", "c", "d", "e", "f", "g", "h", "i", "j", "k", "l", "m",
              "n", "o", "p", "q", "r", "s", "t", "u", "v", "w", "x", "y", "z"}
Digits == {"0", "1", "2", "3", "4", "5", "6", "7", "8", "9"}

FileLists == UNION {[1..k -> Names] : k \in 0..MaxFiles}

----------------------------------------------------------------------------
(* Validators *)

\* the character class [a-z0-9-]
BucketChar(c) == c \in LowerCase \cup Digits \cup {"-"}

\* Python's `$` without re.MULTILINE at position p (1-based, the next character
\* to read): the end of the string, or just before a newline that ends it.
DollarAt(s, p) == \/ p = Len(s) + 1
                  \/ p = Len(s) /\ s[p] = "\n"

\* re.match(r'^[a-z0-9-]+$', name) is not None
valid_bucket_name(name) ==
    \E k \in 1..Len(name) :
        /\ \A j \in 1..k : BucketChar(name[j])
        /\ DollarAt(name, k + 1)

----------------------------------------------------------------------------
(* The storage backend, as the code uses it *)

Present(b, f) == <<b, f>> \in DOMAIN objects

\* the names listed by from_(b).list()
ListNames(b) == {p[2] : p \in {q \in DOMAIN objects : q[1] = b}}

\* from_(b).download(f): the bytes, or None for an absent object
Download(b, f) == IF Present(b, f) THEN objects[<<b, f>>] ELSE NoneVal

\* the objects after from_(b).upload(f, data)
Uploaded(b, f, data) ==
    [p \in DOMAIN objects \cup {<<b, f>>} |->
        IF p = <<b, f>> THEN data ELSE objects[p]]

\* the objects after from_(b).remove(names)
Removed(b, names) ==
    [p \in DOMAIN objects \ {<<b, f>> : f \in names} |-> objects[p]]

\* one entry of the call history: request r called op on bucket b for the
\* names given; ok: the call returned (did not raise); over: an upload that
\* replaced an object already stored under that name
Call(r, op, b, names, ok) ==
    [req |-> r, op |-> op, bucket |-> b, names |-> names, ok |-> ok,
     over |-> ok /\ op = "upload" /\ \E f \in names : Present(b, f)]

----------------------------------------------------------------------------
(* Responses *)

NoMsg == [text |-> "", file |-> "", bucket |-> EmptyStr]
Msg(text, f, b) == [text |-> text, file |-> f, bucket |-> b]

NoResp == [kind |-> "none", status |-> "", msg |-> NoMsg]
\* RedirectResponse(..., status_code=303) with ?success= or ?error=
Redirect(status, msg) == [kind |-> "redirect", status |-> status, msg |-> msg]
\* the HTMLResponse of delete_bucket (status 200)
ConfirmPage(b) == [kind |-> "html", status |-> "",
                   msg |-> Msg("Bucket is not empty", "", b)]
\* an exception that leaves the handler (or the helper, when called directly)
Propagated == [kind |-> "exception", status |-> "", msg |-> NoMsg]
\* the string copy_or_move_files returns to a direct caller
Returned(msg) == [kind |-> "return", status |-> "", msg |-> msg]

NoArgs == [op |-> "", bucket |-> EmptyStr, filename |-> "", files |-> << >>,
           dest |-> EmptyStr, action |-> "", move |-> FALSE, force |-> FALSE,
           content |-> EmptyBytes]
NoLoc == [i |-> 0, existing |-> {}, data |-> NoneVal]

\* the request finishes with response x
Finish(r, x) ==
    /\ pc' = [pc EXCEPT ![r] = "done"]
    /\ resp' = [resp EXCEPT ![r] = x]

----------------------------------------------------------------------------
(* POST /create-bucket *)

\* the outcomes of supabase.storage.create_bucket(name)
CreateOutcomes(name) ==
    IF name \in buckets THEN {"already exists", "error"} ELSE {"ok", "error"}

create_bucket(r, bucket_name) ==
    /\ pc[r] = "idle"
    /\ args' = [args EXCEPT ![r] =
                 [NoArgs EXCEPT !.op = "create_bucket", !.bucket = bucket_name]]
    /\ IF ~valid_bucket_name(bucket_name)
       THEN /\ Finish(r, Redirect("error", Msg("Invalid bucket name", "", EmptyStr)))
            /\ UNCHANGED <<buckets, calls>>
       ELSE \E out \in CreateOutcomes(bucket_name) :
            /\ calls' = Append(calls,
                   Call(r, "create_bucket", bucket_name, {}, out = "ok"))
            /\ buckets' = IF out = "ok" THEN buckets \cup {bucket_name} ELSE buckets
            /\ Finish(r,
                 CASE out = "ok" ->
                        Redirect("success", Msg("Bucket created successfully", "", bucket_name))
                   [] out = "already exists" ->
                        Redirect("error", Msg("Bucket already exists", "", bucket_name))
                   [] OTHER ->
                        Redirect("error", Msg("Failed to create bucket", "", bucket_name)))
    /\ UNCHANGED <<objects, loc, start>>

----------------------------------------------------------------------------
(* Helpers *)

\* Python truthiness of a str / bytes / None value: `not x`
Falsy(x) == x = NoneVal \/ x = << >>

\* list_bucket_objects (lines 27-32): the listing, or [] when the call raised
list_bucket_objects(b, ok) == IF ok THEN ListNames(b) ELSE {}

\* only a missing field counts, an empty string passes
DestMissing_none(dest) == dest = NoneVal

\* line 41: if not dest_bucket
DestMissing(dest) == Falsy(dest)

\* line 50: if not data
NoData(data) == Falsy(data)

\* the collision check finds nothing, whatever the listing holds
Collides_never(existing, f) == FALSE

\* line 46: any(obj["name"] == f for obj in existing)
Collides(existing, f) == f \in existing

\* the messages copy_or_move_files returns
RequiredMsg == Msg("Destination bucket is required", "", EmptyStr)
CollisionMsg(f, dest) == Msg("File already exists in destination bucket", f, dest)
NotFoundMsg(f, src) == Msg("File not found in source bucket", f, src)
DoneMsg(move) == Msg(IF move THEN "Files moved successfully"
                             ELSE "Files copied successfully", "", EmptyStr)

\* file_action, line 237:
\* "already exists" in msg or "required" in msg or "not found" in msg
IsErrorMsg(m) == m.text \in {"File already exists in destination bucket",
                             "Destination bucket is required",
                             "File not found in source bucket"}

\* what the caller of copy_or_move_files makes of the returned message:
\* file_action turns it into a redirect, a direct caller gets the string
Reply(a, m) ==
    IF a.op = "file_action"
    THEN Redirect(IF IsErrorMsg(m) THEN "error" ELSE "success", m)
    ELSE Returned(m)

\* the file the loop of copy_or_move_files is at
CurFile(r) == args[r].files[loc[r].i]

\* the loop of copy_or_move_files moves on to files[i], or returns after the last
Continue(r, a, i) ==
    IF i > Len(a.files)
    THEN /\ Finish(r, Reply(a, DoneMsg(a.move)))
         /\ loc' = [loc EXCEPT ![r] = NoLoc]
    ELSE /\ pc' = [pc EXCEPT ![r] = "cm_list"]
         /\ loc' = [loc EXCEPT ![r] = [NoLoc EXCEPT !.i = i]]
         /\ UNCHANGED resp

\* copy_or_move_files, lines 41-44: the destination check, then the loop
EnterCopy(r, a) ==
    IF DestMissing(a.dest)
    THEN /\ Finish(r, Reply(a, RequiredMsg))
         /\ UNCHANGED loc
    ELSE Continue(r, a, 1)

----------------------------------------------------------------------------
(* copy_or_move_files, one storage call per step *)

\* a direct call of the helper with any file list
CopyOrMoveFiles(r) ==
    /\ pc[r] = "idle"
    /\ \E src \in BucketIds, fs \in FileLists,
          dest \in BucketIds \cup {EmptyStr, NoneVal}, mv \in BOOLEAN :
         LET a == [NoArgs EXCEPT !.op = "copy_or_move_files", !.bucket = src,
                                 !.files = fs, !.dest = dest, !.move = mv]
         IN  /\ args' = [args EXCEPT ![r] = a]
             /\ EnterCopy(r, a)
    /\ UNCHANGED <<buckets, objects, calls, start>>

\* line 45-47: list the destination, fail on a collision
CMList(r) ==
    /\ pc[r] = "cm_list"
    /\ \E ok \in BOOLEAN :
        /\ calls' = Append(calls, Call(r, "list", args[r].dest, {}, ok))
        /\ IF ~ok
           THEN Finish(r, Propagated) /\ UNCHANGED loc
           ELSE LET existing == ListNames(args[r].dest)
                IN  /\ loc' = [loc EXCEPT ![r].existing = existing]
                    /\ IF Collides(existing, CurFile(r))
                       THEN Finish(r, Reply(args[r], CollisionMsg(CurFile(r), args[r].dest)))
                       ELSE /\ pc' = [pc EXCEPT ![r] = "cm_download"]
                            /\ UNCHANGED resp
    /\ UNCHANGED <<buckets, objects, args, start>>

\* line 49-51: download from the source, fail when there is no data
CMDownload(r) ==
    /\ pc[r] = "cm_download"
    /\ \E ok \in BOOLEAN :
        /\ calls' = Append(calls, Call(r, "download", args[r].bucket, {CurFile(r)}, ok))
        /\ IF ~ok
           THEN Finish(r, Propagated) /\ UNCHANGED loc
           ELSE LET data == Download(args[r].bucket, CurFile(r))
                IN  /\ loc' = [loc EXCEPT ![r].data = data]
                    /\ IF NoData(data)
                       THEN Finish(r, Reply(args[r], NotFoundMsg(CurFile(r), args[r].bucket)))
                       ELSE /\ pc' = [pc EXCEPT ![r] = "cm_upload"]
                            /\ UNCHANGED resp
    /\ UNCHANGED <<buckets, objects, args, start>>

\* upload raised although the file is being moved, and the loop goes on to
\* remove the source all the same
AfterUpload_swallow(ok, move) == IF move THEN "cm_remove" ELSE "next"

\* the source is removed whether or not move was asked for
AfterUpload_remove(ok, move) == IF ~ok THEN "raise" ELSE "cm_remove"

\* lines 53-55: where copy_or_move_files goes after the upload call: the
\* exception leaves the function, else the source is removed when moving
AfterUpload(ok, move) ==
    IF ~ok THEN "raise" ELSE IF move THEN "cm_remove" ELSE "next"

\* line 53: upload to the destination; the backend refuses an unknown bucket
CMUpload(r) ==
    /\ pc[r] = "cm_upload"
    /\ \E ok \in {o \in BOOLEAN : o => args[r].dest \in buckets} :
        LET next == AfterUpload(ok, args[r].move)
        IN  /\ calls' = Append(calls, Call(r, "upload", args[r].dest, {CurFile(r)}, ok))
            /\ objects' = IF ok THEN Uploaded(args[r].dest, CurFile(r), loc[r].data)
                                ELSE objects
            /\ CASE next = "raise" -> Finish(r, Propagated) /\ UNCHANGED loc
                 [] next = "cm_remove" -> /\ pc' = [pc EXCEPT ![r] = "cm_remove"]
                                          /\ UNCHANGED <<loc, resp>>
                 [] OTHER -> Continue(r, args[r], loc[r].i + 1)
    /\ UNCHANGED <<buckets, args, start>>

\* line 55: remove the file from the source
CMRemove(r) ==
    /\ pc[r] = "cm_remove"
    /\ \E ok \in BOOLEAN :
        /\ calls' = Append(calls, Call(r, "remove", args[r].bucket, {CurFile(r)}, ok))
        /\ IF ~ok
           THEN Finish(r, Propagated) /\ UNCHANGED <<loc, objects>>
           ELSE /\ objects' = Removed(args[r].bucket, {CurFile(r)})
                /\ Continue(r, args[r], loc[r].i + 1)
    /\ UNCHANGED <<buckets, args, start>>

----------------------------------------------------------------------------
(* POST /delete-bucket *)

\* lines 113 and 195: what delete_bucket does once it holds the listing
AfterListing(files, force) ==
    IF files # {} /\ ~force THEN "confirm"
    ELSE IF files # {} THEN "db_rm_list"
    ELSE "db_delete"

\* lines 111-195: list the bucket, then ask for confirmation or go on
DeleteBucketBegin(r) ==
    /\ pc[r] = "idle"
    /\ \E b \in BucketIds, force \in BOOLEAN, ok \in BOOLEAN :
        LET files == list_bucket_objects(b, ok)
            next == AfterListing(files, force)
        IN  /\ args' = [args EXCEPT ![r] =
                   [NoArgs EXCEPT !.op = "delete_bucket", !.bucket = b, !.force = force]]
            /\ calls' = Append(calls, Call(r, "list", b, {}, ok))
            /\ loc' = [loc EXCEPT ![r] = [NoLoc EXCEPT !.existing = files]]
            /\ IF next = "confirm"
               THEN Finish(r, ConfirmPage(b))
               ELSE pc' = [pc EXCEPT ![r] = next] /\ UNCHANGED resp
    /\ UNCHANGED <<buckets, objects, start>>

\* remove_all_in_bucket, lines 35-37: list again, collect the names
RemoveAllList(r) ==
    /\ pc[r] = "db_rm_list"
    /\ \E ok \in BOOLEAN :
        LET names == list_bucket_objects(args[r].bucket, ok)
        IN  /\ calls' = Append(calls, Call(r, "list", args[r].bucket, {}, ok))
            /\ loc' = [loc EXCEPT ![r].existing = names]
            /\ pc' = [pc EXCEPT ![r] = IF names # {} THEN "db_remove" ELSE "db_delete"]
    /\ UNCHANGED <<buckets, objects, args, resp, start>>

\* remove_all_in_bucket, line 38: one batch remove, outside any try
RemoveAllRemove(r) ==
    /\ pc[r] = "db_remove"
    /\ \E ok \in BOOLEAN :
        /\ calls' = Append(calls, Call(r, "remove", args[r].bucket, loc[r].existing, ok))
        /\ IF ok
           THEN /\ objects' = Removed(args[r].bucket, loc[r].existing)
                /\ pc' = [pc EXCEPT ![r] = "db_delete"]
                /\ UNCHANGED resp
           ELSE Finish(r, Propagated) /\ UNCHANGED objects
    /\ UNCHANGED <<buckets, args, loc, start>>

\* lines 198-202: delete the bucket; the backend refuses a bucket that does
\* not exist or still holds objects
DeleteBucketDelete(r) ==
    /\ pc[r] = "db_delete"
    /\ LET b == args[r].bucket
       IN  \E ok \in {o \in BOOLEAN : o => (b \in buckets /\ ListNames(b) = {})} :
            /\ calls' = Append(calls, Call(r, "delete_bucket", b, {}, ok))
            /\ buckets' = IF ok THEN buckets \ {b} ELSE buckets
            /\ Finish(r, IF ok
                         THEN Redirect("success", Msg("Bucket deleted successfully", "", b))
                         ELSE Redirect("error", Msg("Failed to delete bucket", "", b)))
    /\ UNCHANGED <<objects, args, loc, start>>

----------------------------------------------------------------------------
(* POST /upload-file, /delete-file, /file-action *)

\* lines 204-211
UploadFile(r) ==
    /\ pc[r] = "idle"
    /\ \E b \in BucketIds, f \in Names, content \in Contents :
       \E ok \in {o \in BOOLEAN : o => b \in buckets} :
        /\ args' = [args EXCEPT ![r] =
               [NoArgs EXCEPT !.op = "upload_file", !.bucket = b, !.filename = f,
                              !.content = content]]
        /\ calls' = Append(calls, Call(r, "upload", b, {f}, ok))
        /\ objects' = IF ok THEN Uploaded(b, f, content) ELSE objects
        /\ Finish(r, IF ok
                     THEN Redirect("success", Msg("File uploaded successfully", f, b))
                     ELSE Redirect("error", Msg("Failed to upload file", f, b)))
    /\ UNCHANGED <<buckets, loc, start>>

\* the try block shared by delete_file (215-219) and file_action (229-233)
RemoveOne(r, b, f, ok) ==
    /\ calls' = Append(calls, Call(r, "remove", b, {f}, ok))
    /\ objects' = IF ok THEN Removed(b, {f}) ELSE objects
    /\ Finish(r, IF ok
                 THEN Redirect("success", Msg("File deleted successfully", f, b))
                 ELSE Redirect("error", Msg("Failed to delete file", f, b)))

\* lines 213-219
DeleteFile(r) ==
    /\ pc[r] = "idle"
    /\ \E b \in BucketIds, f \in Names, ok \in BOOLEAN :
        /\ args' = [args EXCEPT ![r] =
               [NoArgs EXCEPT !.op = "delete_file", !.bucket = b, !.filename = f]]
        /\ RemoveOne(r, b, f, ok)
    /\ UNCHANGED <<buckets, loc, start>>

Actions == {"delete", "copy", "move", "rename"}

\* lines 221-241: dispatch on the action field
FileAction(r) ==
    /\ pc[r] = "idle"
    /\ \E src \in BucketIds, f \in Names, action \in Actions,
          dest \in BucketIds \cup {EmptyStr, NoneVal} :
        LET a == [NoArgs EXCEPT !.op = "file_action", !.bucket = src, !.filename = f,
                                !.files = <<f>>, !.action = action, !.dest = dest,
                                !.move = (action = "move")]
        IN  /\ args' = [args EXCEPT ![r] = a]
            /\ CASE action = "delete" ->
                      /\ \E ok \in BOOLEAN : RemoveOne(r, src, f, ok)
                      /\ UNCHANGED loc
                 [] action \in {"copy", "move"} ->
                      /\ EnterCopy(r, a)
                      /\ UNCHANGED <<objects, calls>>
                 [] OTHER ->
                      /\ Finish(r, Redirect("error", Msg("Invalid action", "", src)))
                      /\ UNCHANGED <<objects, calls, loc>>
    /\ UNCHANGED <<buckets, start>>

\* POST /create-bucket with a name out of a few
CreateBucket(r) ==
    \E n \in BucketIds \cup {EmptyStr, <<"A">>} : create_bucket(r, n)

----------------------------------------------------------------------------
(* Specifications *)

\* the backends the requests can find: objects live in existing buckets only
Stores ==
    {st \in [buckets : SUBSET BucketIds,
             objects : UNION {[D -> Contents] : D \in SUBSET (BucketIds \X Names)}] :
        \A p \in DOMAIN st.objects : p[1] \in st.buckets}

InitWith(st, idle) ==
    /\ buckets = st.buckets
    /\ objects = st.objects
    /\ pc = [r \in Reqs |-> IF r \in idle THEN "idle" ELSE "off"]
    /\ args = [r \in Reqs |-> NoArgs]
    /\ loc = [r \in Reqs |-> NoLoc]
    /\ resp = [r \in Reqs |-> NoResp]
    /\ calls = << >>
    /\ start = st

\* one request against any backend
Init == \E st \in Stores : InitWith(st, {"r1"})

Step(r) ==
    \/ CopyOrMoveFiles(r)
    \/ CMList(r)
    \/ CMDownload(r)
    \/ CMUpload(r)
    \/ CMRemove(r)
    \/ DeleteBucketBegin(r)
    \/ RemoveAllList(r)
    \/ RemoveAllRemove(r)
    \/ DeleteBucketDelete(r)
    \/ UploadFile(r)
    \/ DeleteFile(r)
    \/ FileAction(r)
    \/ CreateBucket(r)

Next == \E r \in Reqs : Step(r)

Spec == Init /\ [][Next]_vars

\* two copy or move requests for the same file name and destination, interleaved
InitConc ==
    \E st \in {s \in Stores : s.buckets = BucketIds} : InitWith(st, Reqs)

ConcFileAction(r) ==
    /\ FileAction(r)
    /\ args'[r].action \in {"copy", "move"}
    /\ \A q \in Reqs \ {r} :
         pc[q] # "idle" => /\ args'[r].filename = args[q].filename
                           /\ args'[r].dest = args[q].dest

NextConc ==
    \E r \in Reqs :
        \/ ConcFileAction(r)
        \/ CMList(r)
        \/ CMDownload(r)
        \/ CMUpload(r)
        \/ CMRemove(r)

SpecConc == InitConc /\ [][NextConc]_vars

\* create_bucket on every string over the alphabet, up to MaxLen characters
InitValid ==
    \E st \in {s \in Stores : s.objects = << >>} : InitWith(st, {"r1"})

NextValid == \E r \in Reqs, n \in Strings(MaxLen) : create_bucket(r, n)

SpecValid == InitValid /\ [][NextValid]_vars

----------------------------------------------------------------------------
(* Notions used to state the properties *)

\* the object b/f as the requests found it, and as it is now (None: absent)
StartObj(b, f) == IF <<b, f>> \in DOMAIN start.objects
                  THEN start.objects[<<b, f>>] ELSE NoneVal
Obj(b, f) == Download(b, f)
StartNames(b) == {p[2] : p \in {q \in DOMAIN start.objects : q[1] = b}}

BackendUnchanged == buckets = start.buckets /\ objects = start.objects

\* request r runs copy_or_move_files, through file_action or called directly
IsCopy(r) == \/ args[r].op = "copy_or_move_files"
             \/ args[r].op = "file_action" /\ args[r].action \in {"copy", "move"}

\* the positions of r's calls in the history
CallsOf(r) == {i \in DOMAIN calls : calls[i].req = r}

\* a storage call of r raised
Raised(r) == \E i \in CallsOf(r) : ~calls[i].ok

\* the message copy_or_move_files gave back, as its caller reports it
Reported(r, m) ==
    resp[r] = IF args[r].op = "file_action"
              THEN [kind |-> "redirect", status |-> "error", msg |-> m]
              ELSE [kind |-> "return", status |-> "", msg |-> m]

\* the collision check of r has just found its current file in the destination
SawCollision(r) ==
    /\ IsCopy(r)
    /\ pc[r] \in {"cm_download", "cm_upload", "cm_remove", "done"}
    /\ loc[r].i >= 1
    /\ args[r].files[loc[r].i] \in loc[r].existing

----------------------------------------------------------------------------
(* Properties *)

\* C1: when the collision check of copy_or_move_files finds the file name f in
\* the destination, the operation ends there with the message "already exists
\* in destination" naming f (an error redirect from file_action); the listing is
\* the last call it makes, no download, upload or remove is issued for f, and
\* the source object f is as it was, whether move is set or not.
C1_CollisionLeavesSource ==
    \A r \in Reqs : SawCollision(r) =>
        LET f == args[r].files[loc[r].i]
            first == \A j \in 1..(loc[r].i - 1) : args[r].files[j] # f
            mine == CallsOf(r)
        IN  /\ pc[r] = "done"
            /\ Reported(r, [text |-> "File already exists in destination bucket",
                            file |-> f, bucket |-> args[r].dest])
            /\ \A i \in mine :
                 (\A j \in mine : j <= i) =>
                     calls[i].op = "list" /\ calls[i].bucket = args[r].dest
            /\ first => /\ \A i \in mine :
                             calls[i].op \in {"download", "upload", "remove"}
                                 => f \notin calls[i].names
                        /\ Obj(args[r].bucket, f) = StartObj(args[r].bucket, f)

\* a move into a bucket that already holds the name has ended, and the source
\* still holds its object
C1_Witness ==
    \E r \in Reqs :
        /\ SawCollision(r) /\ pc[r] = "done" /\ args[r].move
        /\ args[r].bucket # args[r].dest
        /\ Present(args[r].bucket, args[r].files[loc[r].i])

\* C2: a single existing source file of any content, zero-length included,
\* whose name is not in a distinct, non-empty-named destination bucket, is
\* copied or moved with success when no storage call fails: afterwards the
\* destination holds the source's content and the source holds the file if
\* and only if move is false.
C2_CopySucceeds ==
    \A r \in Reqs :
        LET src == args[r].bucket
            dest == args[r].dest
            f == args[r].files[1]
        IN  ( /\ IsCopy(r) /\ pc[r] = "done" /\ Len(args[r].files) = 1
              /\ dest \in start.buckets /\ src \in start.buckets /\ dest # src
              /\ StartObj(src, f) # NoneVal /\ StartObj(dest, f) = NoneVal
              /\ ~Raised(r) )
            => /\ resp[r].msg.text = IF args[r].move THEN "Files moved successfully"
                                                     ELSE "Files copied successfully"
               /\ args[r].op = "file_action" =>
                      resp[r].kind = "redirect" /\ resp[r].status = "success"
               /\ Obj(dest, f) = StartObj(src, f)
               /\ Present(src, f) <=> ~args[r].move

\* C2 for files that hold at least one byte (what the code does)
C2_CopySucceedsNonEmpty ==
    \A r \in Reqs :
        LET src == args[r].bucket
            dest == args[r].dest
            f == args[r].files[1]
        IN  ( /\ IsCopy(r) /\ pc[r] = "done" /\ Len(args[r].files) = 1
              /\ dest \in start.buckets /\ src \in start.buckets /\ dest # src
              /\ StartObj(src, f) \notin {NoneVal, EmptyBytes}
              /\ StartObj(dest, f) = NoneVal
              /\ ~Raised(r) )
            => /\ resp[r].msg.text = IF args[r].move THEN "Files moved successfully"
                                                     ELSE "Files copied successfully"
               /\ args[r].op = "file_action" =>
                      resp[r].kind = "redirect" /\ resp[r].status = "success"
               /\ Obj(dest, f) = StartObj(src, f)
               /\ Present(src, f) <=> ~args[r].move

\* C5: copy_or_move_files with an empty or missing destination bucket fails
\* with "Destination bucket is required" for every file list and every move,
\* before any storage call: the backend is unchanged, and file_action reports
\* the message in an error redirect.
C5_DestinationRequired ==
    \A r \in Reqs :
        (IsCopy(r) /\ args[r].dest \in {EmptyStr, NoneVal}) =>
            /\ pc[r] = "done"
            /\ CallsOf(r) = {}
            /\ BackendUnchanged
            /\ Reported(r, [text |-> "Destination bucket is required",
                            file |-> "", bucket |-> EmptyStr])

\* the helper was given files and an empty destination string, and has returned
C5_Witness ==
    \E r \in Reqs :
        /\ args[r].op = "copy_or_move_files" /\ pc[r] = "done"
        /\ Len(args[r].files) > 0 /\ args[r].dest = EmptyStr /\ args[r].move

\* C3: a delete-bucket request without force on a bucket that holds an object
\* removes no object, does not delete the bucket and issues neither call, and
\* answers with the confirmation page, also when the listing made by the
\* handler fails in the backend.
C3_NoForceKeepsBucket ==
    \A r \in Reqs :
        ( /\ args[r].op = "delete_bucket" /\ ~args[r].force
          /\ StartNames(args[r].bucket) # {} )
        => /\ BackendUnchanged
           /\ \A i \in CallsOf(r) : calls[i].op \notin {"remove", "delete_bucket"}
           /\ pc[r] = "done" => /\ resp[r].kind = "html"
                                /\ resp[r].msg.bucket = args[r].bucket

\* C4: a delete-bucket request with force on a non-empty bucket first removes
\* every object of the bucket in one batch remove and only afterwards issues
\* the bucket deletion: each bucket deletion it issues comes after exactly one
\* remove, which named every object of the bucket, and no remove follows it;
\* when no call failed the request ends with the success redirect, the bucket
\* and all its objects gone.
C4_ForceRemovesThenDeletes ==
    \A r \in Reqs :
        ( /\ args[r].op = "delete_bucket" /\ args[r].force
          /\ StartNames(args[r].bucket) # {} )
        => LET b == args[r].bucket
               mine == CallsOf(r)
               removes(j) == {i \in mine : i < j /\ calls[i].op = "remove"}
           IN  /\ \A i, j \in mine :
                    (calls[i].op = "delete_bucket" /\ calls[j].op = "remove") => j < i
               /\ \A j \in mine :
                    calls[j].op = "delete_bucket"
                    => /\ Cardinality(removes(j)) = 1
                       /\ \A i \in removes(j) : /\ calls[i].bucket = b
                                                /\ calls[i].names = StartNames(b)
               /\ (pc[r] = "done" /\ ~Raised(r)) =>
                     /\ resp[r] = [kind |-> "redirect", status |-> "success",
                                   msg |-> [text |-> "Bucket deleted successfully",
                                            file |-> "", bucket |-> b]]
                     /\ b \notin buckets
                     /\ ListNames(b) = {}

\* C4 for the requests whose listings all returned (what the code does): the
\* bucket deletion then comes after exactly one remove naming every object
C4_ForceRemovesWhenListed ==
    \A r \in Reqs :
        ( /\ args[r].op = "delete_bucket" /\ args[r].force
          /\ StartNames(args[r].bucket) # {} )
        => LET mine == CallsOf(r)
               removes(j) == {i \in mine : i < j /\ calls[i].op = "remove"}
           IN  \A j \in mine :
                    ( /\ calls[j].op = "delete_bucket"
                      /\ \A i \in mine : (i < j /\ calls[i].op = "list") => calls[i].ok )
                    => /\ Cardinality(removes(j)) = 1
                       /\ \A i \in removes(j) : calls[i].names = StartNames(args[r].bucket)

\* C6: for every non-empty string s over the alphabet, strings ending in a
\* newline included, valid_bucket_name(s) is true if and only if every
\* character of s is in [a-z0-9-], and create-bucket calls the backend's
\* createBucket only for names made of such characters.
C6_ValidIffClassChars ==
    \A r \in Reqs :
        (args[r].op = "create_bucket" /\ args[r].bucket # EmptyStr) =>
            LET s == args[r].bucket
                inClass == \A j \in 1..Len(s) : BucketChar(s[j])
            IN  /\ valid_bucket_name(s) <=> inClass
                /\ (\E i \in CallsOf(r) : calls[i].op = "create_bucket") => inClass

\* C8: when a storage call made for a POST handler raises into the handler's
\* code, the handler catches it and answers with a 303 redirect carrying an
\* error message; no failure leaves a handler.  (A failure inside
\* list_bucket_objects never reaches the handler: it is turned into an empty
\* listing.)
C8_FailuresAreCaught ==
    \A r \in Reqs :
        ( /\ pc[r] = "done"
          /\ args[r].op \in {"create_bucket", "delete_bucket", "upload_file",
                             "delete_file", "file_action"}
          /\ \E i \in CallsOf(r) :
                /\ ~calls[i].ok
                /\ ~(args[r].op = "delete_bucket" /\ calls[i].op = "list") )
        => resp[r].kind = "redirect" /\ resp[r].status = "error"

\* C9: when copy_or_move_files fails at its k-th file name with a collision or
\* a missing source file, the names before the k-th stay copied to the
\* destination (and gone from the source when move is set, kept when not), the
\* k-th and later names not among them are as they were in both buckets, and
\* the message names the k-th file only.
C9_PartialCompletion ==
    \A r \in Reqs :
        ( /\ IsCopy(r) /\ pc[r] = "done"
          /\ resp[r].msg.text \in {"File already exists in destination bucket",
                                   "File not found in source bucket"} )
        => LET k == loc[r].i
               fs == args[r].files
               src == args[r].bucket
               dest == args[r].dest
               before == {fs[j] : j \in 1..(k - 1)}
           IN  /\ k \in 1..Len(fs)
               /\ resp[r].msg.file = fs[k]
               /\ \A f \in before :
                    /\ StartObj(src, f) # NoneVal
                    /\ Obj(dest, f) = StartObj(src, f)
                    /\ Obj(src, f) = IF args[r].move THEN NoneVal ELSE StartObj(src, f)
               /\ \A j \in k..Len(fs) :
                    fs[j] \notin before =>
                        /\ Obj(src, fs[j]) = StartObj(src, fs[j])
                        /\ Obj(dest, fs[j]) = StartObj(dest, fs[j])

\* a copy (not a move) of two names has failed at the second, the first copied
C9_Witness ==
    \E r \in Reqs :
        /\ IsCopy(r) /\ pc[r] = "done" /\ ~args[r].move
        /\ resp[r].msg.text = "File not found in source bucket"
        /\ loc[r].i = 2
        /\ Present(args[r].dest, args[r].files[1])
        /\ StartObj(args[r].dest, args[r].files[1]) = NoneVal

\* C10: in a move between two distinct buckets, the removal of a file from the
\* source is issued only right after its upload to the destination has
\* returned, so in every state of the move, also after a step has failed, the
\* content a listed source file had is in the source or in the destination.
C10_MoveNeverLosesFile ==
    \A r \in Reqs :
        (IsCopy(r) /\ args[r].move /\ args[r].bucket # args[r].dest) =>
            LET src == args[r].bucket
                dest == args[r].dest
            IN  /\ \A j \in 1..Len(args[r].files) :
                     LET f == args[r].files[j]
                     IN  StartObj(src, f) # NoneVal =>
                             \/ Obj(src, f) = StartObj(src, f)
                             \/ Obj(dest, f) = StartObj(src, f)
                /\ \A i \in CallsOf(r) :
                     calls[i].op = "remove" =>
                         /\ i > 1
                         /\ calls[i - 1].op = "upload" /\ calls[i - 1].ok
                         /\ calls[i - 1].bucket = dest
                         /\ calls[i - 1].names = calls[i].names

\* a move has removed the source file after uploading it
C10_Witness ==
    \E r \in Reqs :
        /\ IsCopy(r) /\ args[r].move /\ args[r].bucket # args[r].dest
        /\ Len(calls) > 0
        /\ calls[Len(calls)].op = "remove" /\ calls[Len(calls)].ok
        /\ ~Present(args[r].bucket, args[r].files[1])
        /\ StartObj(args[r].bucket, args[r].files[1]) # NoneVal

\* C7: the collision check does not keep two concurrent copy or move requests
\* for the same name and destination from both uploading: an upload replaces
\* an object already in the destination only when the other request wrote it
\* after this request's collision check (C7_Witness is the state in which both
\* have uploaded after both checks saw no collision).
C7_OverwriteOnlyByRace ==
    \A j \in DOMAIN calls :
        (calls[j].op = "upload" /\ calls[j].over) =>
            \E i \in 1..(j - 1) :
                /\ calls[i].req = calls[j].req
                /\ calls[i].op = "list" /\ calls[i].ok
                /\ calls[i].bucket = calls[j].bucket
                /\ \E k \in (i + 1)..(j - 1) :
                    /\ calls[k].req # calls[j].req
                    /\ calls[k].op = "upload" /\ calls[k].ok
                    /\ calls[k].bucket = calls[j].bucket
                    /\ calls[k].names = calls[j].names

\* both requests passed the collision check before either uploaded, both
\* uploads returned, and the second replaced the object the first had written
C7_Witness ==
    \E l1, l2, u1, u2 \in DOMAIN calls :
        /\ calls[l1].req = "r1" /\ calls[l1].op = "list" /\ calls[l1].ok
        /\ calls[l2].req = "r2" /\ calls[l2].op = "list" /\ calls[l2].ok
        /\ calls[u1].req = "r1" /\ calls[u1].op = "upload" /\ calls[u1].ok
        /\ calls[u2].req = "r2" /\ calls[u2].op = "upload" /\ calls[u2].ok
        /\ l1 < u1 /\ l1 < u2 /\ l2 < u1 /\ l2 < u2
        /\ calls[u1].bucket = calls[u2].bucket
        /\ calls[u1].names = calls[u2].names
        /\ calls[u1].over \/ calls[u2].over

====
